---- MODULE Spec2Model ----
(***************************************************************************)
(* Model of the K-Pop idol query service (src/main.py): one table that the *)
(* service only reads, five GET handlers and the get_db session dependency.*)
(*                                                                         *)
(* Text is a sequence of characters.  An optional value (a Python None, a  *)
(* SQL NULL) is the empty tuple and a present value v is <<v>>.  Requests  *)
(* share no mutable state, so they are served one after the other; every   *)
(* session ever created stays in `sessions` so that a leak stays visible.  *)
(***************************************************************************)
EXTENDS Integers, Sequences, FiniteSets, TLC

VARIABLES table, pc, nreq, sessions, db, req, resp, query

vars == <<table, pc, nreq, sessions, db, req, resp, query>>

(* ---- bounds ---- *)
MaxRequests == 2
MaxValueLen == 2

(* ---- optional values ---- *)
None == <<>>
NULL == <<>>
Some(v) == <<v>>
Val(o) == o[1]

(* ---- characters ---- *)
ValueChars == {"a", "b", "%", "_", "'"}

RECURSIVE StringsUpTo(_)
StringsUpTo(n) ==
    IF n = 0 THEN {<<>>}
    ELSE LET shorter == StringsUpTo(n - 1)
         IN  shorter \cup {Append(s, c) : s \in {t \in shorter : Len(t) = n - 1}, c \in ValueChars}

(* ---- the table kpop_idol_followers ---- *)
StringColumns ==
    {"Stage_Name", "Group", "ig_name", "Gender_x", "Full_Name", "Korean_Name",
     "K_Stage_Name", "Company", "Country", "Second_Country", "Height", "Weight",
     "Birthplace", "Other_Group", "Former_Group", "Gender_y"}
IntColumns == {"Followers", "age", "year_career"}
DateColumns == {"Date_of_Birth", "Debut"}
Columns == StringColumns \cup IntColumns \cup DateColumns

KpopIdol(stage, group, gender, country, company, height, weight, debut, age) ==
    [c \in Columns |->
        CASE c = "Stage_Name" -> Some(stage)
          [] c = "Group"      -> group
          [] c = "Gender_x"   -> gender
          [] c = "Country"    -> country
          [] c = "Company"    -> company
          [] c = "Height"     -> height
          [] c = "Weight"     -> weight
          [] c = "Debut"      -> debut
          [] c = "age"        -> age
          [] OTHER            -> NULL]

RowPool ==
    { KpopIdol(<<"a">>, Some(<<"a", "b">>), Some(<<"a">>), Some(<<"a", "b">>),
               Some(<<"a">>), NULL, NULL, Some(2016), Some(22)),
      KpopIdol(<<"b">>, Some(<<"a", "b">>), Some(<<"b">>), Some(<<"b">>),
               NULL, Some(<<"a">>), Some(<<"a">>), Some(2017), Some(25)),
      KpopIdol(<<"a", "b">>, NULL, NULL, NULL,
               Some(<<"b">>), Some(<<"b">>), NULL, NULL, NULL),
      KpopIdol(<<"a">>, Some(<<"b">>), Some(<<"a">>), Some(<<"%">>),
               Some(<<"a">>), Some(<<"a">>), Some(<<"b">>), Some(2016), Some(20)) }

UniqueStageNames(t) ==
    \A r1 \in t, r2 \in t : r1["Stage_Name"] = r2["Stage_Name"] => r1 = r2

Tables == {t \in SUBSET RowPool : UniqueStageNames(t)}

(* ---- pure helpers ---- *)
IsNull(cell) == cell = NULL

\* the backend's LIKE: % matches any run of characters, _ exactly one
RECURSIVE LikeMatch(_, _)
LikeMatch(s, p) ==
    IF p = <<>> THEN s = <<>>
    ELSE IF Head(p) = "%"
         THEN LikeMatch(s, Tail(p)) \/ (s # <<>> /\ LikeMatch(Tail(s), p))
         ELSE s # <<>> /\ (Head(p) = "_" \/ Head(p) = Head(s)) /\ LikeMatch(Tail(s), Tail(p))

Contains(s, v) ==
    \E i \in 1..(Len(s) - Len(v) + 1) : SubSeq(s, i, i + Len(v) - 1) = v

Digit(d) == CASE d = 0 -> "0" [] d = 1 -> "1" [] d = 2 -> "2" [] d = 3 -> "3"
              [] d = 4 -> "4" [] d = 5 -> "5" [] d = 6 -> "6" [] d = 7 -> "7"
              [] d = 8 -> "8" [] d = 9 -> "9"

RECURSIVE Decimal(_)
Decimal(n) == IF n < 10 THEN <<Digit(n)>> ELSE Append(Decimal(n \div 10), Digit(n % 10))

\* the text the backend compares in a LIKE; a date is kept as its year, 1 January
TextOf(col, cell) ==
    IF col \in IntColumns THEN Decimal(Val(cell))
    ELSE IF col \in DateColumns
         THEN Decimal(Val(cell)) \o <<"-", "0", "1", "-", "0", "1", " ", "0", "0", ":", "0", "0", ":", "0", "0">>
         ELSE Val(cell)

\* idol.__dict__ of a loaded row and the comprehension that drops private keys
PrivateKeys == {"_sa_instance_state"}
InstanceDict(row) ==
    [k \in Columns \cup PrivateKeys |-> IF k \in Columns THEN row[k] ELSE Some(<<"state">>)]
Serialize(d) == [k \in {j \in DOMAIN d : j \notin PrivateKeys} |-> d[k]]

TruthyStr(o) == o # None /\ Val(o) # <<>> 
TruthyInt(o) == o # None /\ Val(o) # 0

HTTPException(code, msg) == [status |-> code, detail |-> msg, rows |-> {}]
Ok(rs) == [status |-> 200, detail |-> "", rows |-> rs]
ServerError == [status |-> 500, detail |-> "Internal Server Error", rows |-> {}]

(* ---- ORM queries ---- *)
\* column = value in SQL: never true of a NULL column
SqlEq(cell, v) == ~IsNull(cell) /\ Val(cell) = v

NoQuery == [text |-> <<>>, bound |-> {}]

\* variant: the empty result is treated as in the other handlers
get_all_idols_404_on_empty(t) ==
    IF t = {} THEN HTTPException(404, "No idols found.")
    ELSE Ok({Serialize(InstanceDict(idol)) : idol \in t})

get_all_idols(t) ==
    LET idols == t
    IN  Ok({Serialize(InstanceDict(idol)) : idol \in idols})

\* variant: the emptiness check is left out
get_idol_by_stage_name_no_404(t, stage_name) ==
    Ok({Serialize(InstanceDict(i)) : i \in {r \in t : SqlEq(r["Stage_Name"], stage_name)}})

get_idol_by_stage_name(t, stage_name) ==
    LET idol == {r \in t : SqlEq(r["Stage_Name"], stage_name)}
    IN  IF idol = {} THEN HTTPException(404, "Idol not found.")
        ELSE Ok({Serialize(InstanceDict(i)) : i \in idol})

\* variant: a row without a group is taken to belong to every group
get_idols_by_group_null_too(t, group_name) ==
    LET idols == {r \in t : IsNull(r["Group"]) \/ SqlEq(r["Group"], group_name)}
    IN  IF idols = {}
        THEN HTTPException(404, "Group not found or has no members in the dataset.")
        ELSE Ok({Serialize(InstanceDict(idol)) : idol \in idols})

get_idols_by_group(t, group_name) ==
    LET idols == {r \in t : SqlEq(r["Group"], group_name)}
    IN  IF idols = {}
        THEN HTTPException(404, "Group not found or has no members in the dataset.")
        ELSE Ok({Serialize(InstanceDict(idol)) : idol \in idols})

(* ---- search: the statement is built as text ---- *)
\* the fragments of the f-strings; BackQuote stands for the character that quotes
\* an identifier, Quote for the one that delimits a string literal
SelectWhere == "SELECT * FROM kpop_idol_followers WHERE "
BackQuote == "[backquote]"
LikeOp == " LIKE "
OrOp == " OR "
IsNullOp == " IS NULL"
Quote == "'"

\* f"... WHERE `{field}` LIKE '%{value}%'", then the Height/Weight variant
search_query_str(field, value) ==
    LET plain == <<SelectWhere, BackQuote, field, BackQuote, LikeOp, Quote, "%">> \o value \o <<"%", Quote>>
    IN  IF field \in {"Height", "Weight"}
        THEN plain \o <<OrOp, BackQuote, field, BackQuote, IsNullOp>>
        ELSE plain

\* the backend reads a string literal: '' is a quote character, a lone ' ends it
RECURSIVE LexLiteral(_, _)
LexLiteral(rest, acc) ==
    IF rest = <<>> THEN [closed |-> FALSE, pattern |-> acc, rest |-> <<>>]
    ELSE IF Head(rest) = Quote
         THEN IF Len(rest) >= 2 /\ rest[2] = Quote
              THEN LexLiteral(SubSeq(rest, 3, Len(rest)), Append(acc, Quote))
              ELSE [closed |-> TRUE, pattern |-> acc, rest |-> Tail(rest)]
         ELSE LexLiteral(Tail(rest), Append(acc, Head(rest)))

LikeRows(t, col, pattern) ==
    {r \in t : ~IsNull(r[col]) /\ LikeMatch(TextOf(col, r[col]), pattern)}

\* db.execute(text(query_str)): the rows of the statement the text spells.  Text
\* that leaves the literal early is a statement of the caller's making: it is
\* rejected by the backend or selects whatever rows it spells.
ExecuteText(text, t) ==
    LET col == text[3]
        lit == LexLiteral(SubSeq(text, 7, Len(text)), <<>>)
    IN  IF ~lit.closed THEN {[error |-> TRUE, rows |-> {}]}
        ELSE IF lit.rest = <<>>
             THEN {[error |-> FALSE, rows |-> LikeRows(t, col, lit.pattern)]}
        ELSE IF lit.rest = <<OrOp, BackQuote, col, BackQuote, IsNullOp>>
             THEN {[error |-> FALSE,
                    rows |-> LikeRows(t, col, lit.pattern) \cup {r \in t : IsNull(r[col])}]}
        ELSE {[error |-> TRUE, rows |-> {}]} \cup {[error |-> FALSE, rows |-> rs] : rs \in SUBSET t}

TruthyField(o) == o # None /\ Val(o) # ""

\* variant: value is tested against None instead of for truth
search_idols_value_none_only(t, field, value) ==
    IF ~TruthyField(field) \/ value = None
    THEN {[resp |-> HTTPException(400, "Both 'field' and 'value' are required."), query |-> NoQuery]}
    ELSE IF Val(field) \notin Columns
         THEN {[resp |-> HTTPException(400, "Field '" \o Val(field) \o "' not found in the data."),
                query |-> NoQuery]}
    ELSE LET query_str == search_query_str(Val(field), Val(value))
         IN  {[resp  |-> IF result.error THEN ServerError
                         ELSE IF result.rows = {}
                              THEN HTTPException(404, "No idols found matching the search criteria.")
                              ELSE Ok(result.rows),
               query |-> [text |-> query_str, bound |-> {}]]
              : result \in ExecuteText(query_str, t)}

\* the possible answers of search_idols, each with the statement it executed
search_idols(t, field, value) ==
    IF ~TruthyField(field) \/ ~TruthyStr(value)
    THEN {[resp |-> HTTPException(400, "Both 'field' and 'value' are required."), query |-> NoQuery]}
    ELSE IF Val(field) \notin Columns
         THEN {[resp |-> HTTPException(400, "Field '" \o Val(field) \o "' not found in the data."),
                query |-> NoQuery]}
    ELSE LET query_str == search_query_str(Val(field), Val(value))
         IN  {[resp  |-> IF result.error THEN ServerError
                         ELSE IF result.rows = {}
                              THEN HTTPException(404, "No idols found matching the search criteria.")
                              ELSE Ok(result.rows),
               query |-> [text |-> query_str, bound |-> {}]]
              : result \in ExecuteText(query_str, t)}

(* ---- filter: text with bound parameters ---- *)
\* the fragments of query_str, written without the identifier quoting
FilterHead == "SELECT * FROM kpop_idol_followers WHERE 1=1"
GenderClause == " AND Gender_x LIKE :gender"
CountryClause == " AND Country LIKE :country"
CompanyClause == " AND Company LIKE :company"
DebutClause == " AND YEAR(Debut) = :debut_year"
AgeFromClause == " AND age >= :age_from"
AgeToClause == " AND age <= :age_to"
RelaxClause == " OR (Height IS NULL OR Weight IS NULL)"

NoParams == [k \in {} |-> None]
Bind(params, name, v) == [k \in DOMAIN params \cup {name} |-> IF k = name THEN v ELSE params[k]]
Wrap(v) == <<"%">> \o v \o <<"%">>

\* variant: the test fires on any bound parameter
NeedsRelax_any_param(params) == DOMAIN params # {}

\* any(field in ["Height", "Weight"] for field in params.keys())
NeedsRelax(params) == \E field \in DOMAIN params : field \in {"Height", "Weight"}

\* query_str and params as the chain of ifs leaves them
filter_query(gender, country, company, debut_year, age_from, age_to) ==
    LET q0 == <<FilterHead>>
        p0 == NoParams
        q1 == IF TruthyStr(gender) THEN Append(q0, GenderClause) ELSE q0
        p1 == IF TruthyStr(gender) THEN Bind(p0, "gender", Wrap(Val(gender))) ELSE p0
        q2 == IF TruthyStr(country) THEN Append(q1, CountryClause) ELSE q1
        p2 == IF TruthyStr(country) THEN Bind(p1, "country", Wrap(Val(country))) ELSE p1
        q3 == IF TruthyStr(company) THEN Append(q2, CompanyClause) ELSE q2
        p3 == IF TruthyStr(company) THEN Bind(p2, "company", Wrap(Val(company))) ELSE p2
        q4 == IF TruthyInt(debut_year) THEN Append(q3, DebutClause) ELSE q3
        p4 == IF TruthyInt(debut_year) THEN Bind(p3, "debut_year", Val(debut_year)) ELSE p3
        q5 == IF TruthyInt(age_from) THEN Append(q4, AgeFromClause) ELSE q4
        p5 == IF TruthyInt(age_from) THEN Bind(p4, "age_from", Val(age_from)) ELSE p4
        q6 == IF TruthyInt(age_to) THEN Append(q5, AgeToClause) ELSE q5
        p6 == IF TruthyInt(age_to) THEN Bind(p5, "age_to", Val(age_to)) ELSE p5
        q7 == IF NeedsRelax(p6) THEN Append(q6, RelaxClause) ELSE q6
    IN  [text |-> q7, params |-> p6]

\* one AND-ed predicate of the statement, on one row
ClauseHolds(clause, r, params) ==
    CASE clause = GenderClause  -> ~IsNull(r["Gender_x"]) /\ LikeMatch(Val(r["Gender_x"]), params["gender"])
      [] clause = CountryClause -> ~IsNull(r["Country"]) /\ LikeMatch(Val(r["Country"]), params["country"])
      [] clause = CompanyClause -> ~IsNull(r["Company"]) /\ LikeMatch(Val(r["Company"]), params["company"])
      [] clause = DebutClause   -> ~IsNull(r["Debut"]) /\ Val(r["Debut"]) = params["debut_year"]
      [] clause = AgeFromClause -> ~IsNull(r["age"]) /\ Val(r["age"]) >= params["age_from"]
      [] clause = AgeToClause   -> ~IsNull(r["age"]) /\ Val(r["age"]) <= params["age_to"]
      [] OTHER                  -> TRUE

\* db.execute(text(query_str), params): AND binds tighter than the trailing OR
ExecuteBound(text, params, t) ==
    {r \in t :
        \/ \A i \in 1..Len(text) : text[i] = RelaxClause \/ ClauseHolds(text[i], r, params)
        \/ /\ \E i \in 1..Len(text) : text[i] = RelaxClause
           /\ (IsNull(r["Height"]) \/ IsNull(r["Weight"]))}

\* variant: a request without criteria is refused, as search_idols refuses one
filter_idols_requires_criteria(t, gender, country, company, debut_year, age_from, age_to) ==
    LET q == filter_query(gender, country, company, debut_year, age_from, age_to)
        result == ExecuteBound(q.text, q.params, t)
    IN  [resp  |-> IF DOMAIN q.params = {}
                   THEN HTTPException(400, "At least one criterion is required.")
                   ELSE IF result = {}
                        THEN HTTPException(404, "No idols found matching the filter criteria.")
                        ELSE Ok(result),
         query |-> [text |-> q.text, bound |-> DOMAIN q.params]]

filter_idols(t, gender, country, company, debut_year, age_from, age_to) ==
    LET q == filter_query(gender, country, company, debut_year, age_from, age_to)
        result == ExecuteBound(q.text, q.params, t)
    IN  [resp  |-> IF result = {}
                   THEN HTTPException(404, "No idols found matching the filter criteria.")
                   ELSE Ok(result),
         query |-> [text |-> q.text, bound |-> DOMAIN q.params]]

(* ---- the session dependency ---- *)
\* db = SessionLocal()
SessionLocal(ss) == Append(ss, "open")

\* variant: close() follows the yield without a finally, so a raised error skips it
get_db_exit_no_finally(ss, d, outcome) ==
    IF outcome.status = 200 THEN [ss EXCEPT ![d] = "closed"] ELSE ss

\* the finally block of get_db: it runs whatever the handler's outcome was
get_db_exit(ss, d, outcome) == [ss EXCEPT ![d] = "closed"]

(* ---- request inputs ---- *)
PathInputs == StringsUpTo(MaxValueLen) \ {<<>>}
FieldInputs == {None, Some("")} \cup {Some(c) : c \in Columns \cup {"NotAColumn"}}
ValueInputs == {None} \cup {Some(v) : v \in StringsUpTo(MaxValueLen)}
GenderInputs == {None, Some(<<>>), Some(<<"a">>), Some(<<"%">>)}
CountryInputs == {None, Some(<<"b">>)}
CompanyInputs == {None, Some(<<"a">>)}
YearInputs == {None, Some(0), Some(2016)}
AgeInputs == {None, Some(0), Some(20), Some(23)}

NoRequest ==
    [op |-> "none", stage_name |-> None, group_name |-> None, field |-> None,
     value |-> None, gender |-> None, country |-> None, company |-> None,
     debut_year |-> None, age_from |-> None, age_to |-> None]
NoResponse == [status |-> 0, detail |-> "", rows |-> {}]

(* ---- the state machine ---- *)
Init ==
    /\ table \in Tables
    /\ pc = "idle"
    /\ nreq = 0
    /\ sessions = <<>>
    /\ db = 0
    /\ req = NoRequest
    /\ resp = NoResponse
    /\ query = NoQuery

\* a request arrives and get_db runs up to its yield
Acquire ==
    /\ pc \in {"idle", "done"}
    /\ nreq < MaxRequests
    /\ nreq' = nreq + 1
    /\ sessions' = SessionLocal(sessions)
    /\ db' = Len(sessions) + 1
    /\ pc' = "running"
    /\ req' = NoRequest
    /\ resp' = NoResponse
    /\ query' = NoQuery
    /\ UNCHANGED table

GetAllIdols ==
    /\ pc = "running"
    /\ req' = [NoRequest EXCEPT !.op = "get_all_idols"]
    /\ resp' = get_all_idols(table)
    /\ query' = NoQuery
    /\ pc' = "exiting"
    /\ UNCHANGED <<table, nreq, sessions, db>>

GetIdolByStageName ==
    /\ pc = "running"
    /\ \E stage_name \in PathInputs :
        /\ req' = [NoRequest EXCEPT !.op = "get_idol_by_stage_name", !.stage_name = Some(stage_name)]
        /\ resp' = get_idol_by_stage_name(table, stage_name)
    /\ query' = NoQuery
    /\ pc' = "exiting"
    /\ UNCHANGED <<table, nreq, sessions, db>>

GetIdolsByGroup ==
    /\ pc = "running"
    /\ \E group_name \in PathInputs :
        /\ req' = [NoRequest EXCEPT !.op = "get_idols_by_group", !.group_name = Some(group_name)]
        /\ resp' = get_idols_by_group(table, group_name)
    /\ query' = NoQuery
    /\ pc' = "exiting"
    /\ UNCHANGED <<table, nreq, sessions, db>>

SearchIdols ==
    /\ pc = "running"
    /\ \E field \in FieldInputs, value \in ValueInputs :
        /\ req' = [NoRequest EXCEPT !.op = "search_idols", !.field = field, !.value = value]
        /\ \E answer \in search_idols(table, field, value) :
            /\ resp' = answer.resp
            /\ query' = answer.query
    /\ pc' = "exiting"
    /\ UNCHANGED <<table, nreq, sessions, db>>

FilterIdols ==
    /\ pc = "running"
    /\ \E gender \in GenderInputs, country \in CountryInputs, company \in CompanyInputs,
          debut_year \in YearInputs, age_from \in AgeInputs, age_to \in AgeInputs :
        LET answer == filter_idols(table, gender, country, company, debut_year, age_from, age_to)
        IN  /\ req' = [NoRequest EXCEPT !.op = "filter_idols", !.gender = gender,
                          !.country = country, !.company = company,
                          !.debut_year = debut_year, !.age_from = age_from, !.age_to = age_to]
            /\ resp' = answer.resp
            /\ query' = answer.query
    /\ pc' = "exiting"
    /\ UNCHANGED <<table, nreq, sessions, db>>

\* the handler has returned or raised: get_db resumes after its yield
Close ==
    /\ pc = "exiting"
    /\ sessions' = get_db_exit(sessions, db, resp)
    /\ pc' = "done"
    /\ UNCHANGED <<table, nreq, db, req, resp, query>>

Next ==
    \/ Acquire
    \/ GetAllIdols
    \/ GetIdolByStageName
    \/ GetIdolsByGroup
    \/ SearchIdols
    \/ FilterIdols
    \/ Close

Spec == Init /\ [][Next]_vars

TypeOK ==
    /\ table \in Tables
    /\ pc \in {"idle", "running", "exiting", "done"}
    /\ nreq \in 0..MaxRequests
    /\ resp.status \in {0, 200, 400, 404, 500}

(* ---- properties ---- *)
Range(f) == {f[i] : i \in DOMAIN f}
FilterNames == {"gender", "country", "company", "debut_year", "age_from", "age_to"}

\* C1: the session get_db acquired for a request is closed on every exit path
\* (200, 400, 404 or a failed statement); once a request has completed, no
\* session acquired for it or for an earlier request is still open.
C1_SessionClosedOnEveryExit ==
    \A i \in 1..Len(sessions) : (i # db \/ pc = "done") => sessions[i] = "closed"

C1_Witness ==
    /\ pc = "done"
    /\ nreq = MaxRequests
    /\ resp.status = 500
    /\ sessions[db] = "closed"

\* C2: with unique stage names, get_idol_by_stage_name(name) answers exactly one
\* row, whose Stage_Name is name, when name is in the table, and 404 with
\* "Idol not found." when it is not.
C2_StageNameLookup ==
    req.op = "get_idol_by_stage_name" =>
        LET name == Val(req.stage_name)
            present == \E r \in table : r["Stage_Name"] = Some(name)
        IN  /\ present => /\ resp.status = 200
                          /\ Cardinality(resp.rows) = 1
                          /\ \A row \in resp.rows : row["Stage_Name"] = Some(name)
            /\ ~present => /\ resp.status = 404
                           /\ resp.detail = "Idol not found."

C2_Witness ==
    /\ req.op = "get_idol_by_stage_name"
    /\ resp.status = 200
    /\ Cardinality(table) >= 2

\* C3: get_idols_by_group(name) answers exactly the rows whose Group is name when
\* there is one, and 404 when there is none; a row with a null Group is never
\* returned.
C3_GroupLookup ==
    req.op = "get_idols_by_group" =>
        LET name == Val(req.group_name)
            members == {r \in table : r["Group"] = Some(name)}
        IN  /\ members # {} => resp.status = 200 /\ resp.rows = members
            /\ members = {} => resp.status = 404
            /\ \A row \in resp.rows : row["Group"] # NULL

C3_Witness ==
    /\ req.op = "get_idols_by_group"
    /\ resp.status = 200
    /\ Cardinality(resp.rows) = 2
    /\ \E r \in table : r["Group"] = NULL

\* C4: search_idols answers 400 whenever field or value is missing or empty or
\* field is not a declared column, never 200 or 404; the missing-parameter check
\* comes first, so its message wins over the unknown-column one.
C4_SearchValidation ==
    req.op = "search_idols" =>
        LET missing == \/ req.field = None \/ req.field = Some("")
                       \/ req.value = None \/ req.value = Some(<<>>)
            unknown == req.field # None /\ Val(req.field) \notin Columns
        IN  /\ (missing \/ unknown) => resp.status = 400
            /\ missing => resp.detail = "Both 'field' and 'value' are required."
            /\ (~missing /\ unknown) =>
                   resp.detail = "Field '" \o Val(req.field) \o "' not found in the data."

C4_Witness ==
    /\ req.op = "search_idols"
    /\ req.field = Some("NotAColumn")
    /\ req.value = None
    /\ resp.status = 400

\* C5: in search_idols the value reaches the backend only as a bound parameter:
\* the executed text names the field and never contains the value.
C5_ValueOnlyBound ==
    (req.op = "search_idols" /\ query.text # <<>>) =>
        /\ Val(req.field) \in Range(query.text)
        /\ ~Contains(query.text, Val(req.value))

\* C6: for a declared column and a non-empty value, search_idols answers exactly
\* the rows whose column contains the value, plus the rows whose column is null
\* when the field is Height or Weight, and 404 exactly when there are none.
C6_SearchExact ==
    (req.op = "search_idols" /\ TruthyField(req.field) /\ TruthyStr(req.value)
        /\ Val(req.field) \in Columns) =>
        LET f == Val(req.field)
            holding == {r \in table : ~IsNull(r[f]) /\ Contains(TextOf(f, r[f]), Val(req.value))}
            expected == IF f \in {"Height", "Weight"}
                        THEN holding \cup {r \in table : IsNull(r[f])}
                        ELSE holding
        IN  IF expected = {} THEN resp.status = 404
            ELSE resp.status = 200 /\ resp.rows = expected

\* C7: every row filter_idols returns satisfies every criterion the request
\* supplied: the three substrings, the debut year and the inclusive age range.
Has(r, col, v) == ~IsNull(r[col]) /\ Contains(Val(r[col]), v)
C7_AllCriteriaApplied ==
    req.op = "filter_idols" =>
        \A r \in resp.rows :
            /\ req.gender # None => Has(r, "Gender_x", Val(req.gender))
            /\ req.country # None => Has(r, "Country", Val(req.country))
            /\ req.company # None => Has(r, "Company", Val(req.company))
            /\ req.debut_year # None => ~IsNull(r["Debut"]) /\ Val(r["Debut"]) = Val(req.debut_year)
            /\ req.age_from # None => ~IsNull(r["age"]) /\ Val(r["age"]) >= Val(req.age_from)
            /\ req.age_to # None => ~IsNull(r["age"]) /\ Val(r["age"]) <= Val(req.age_to)

NoCriteria ==
    /\ req.op = "filter_idols"
    /\ req.gender = None /\ req.country = None /\ req.company = None
    /\ req.debut_year = None /\ req.age_from = None /\ req.age_to = None

\* C8 as stated: filter_idols without criteria answers 200 with the whole table,
\* whatever the table holds.
C8_NoCriteriaWholeTable ==
    NoCriteria => resp.status = 200 /\ Cardinality(resp.rows) = Cardinality(table)

\* C8 amended: filter_idols without criteria answers 200 with the whole table
\* when the table has a row, and 404 when the table is empty.
C8_NoCriteriaWholeTableOr404 ==
    NoCriteria =>
        IF table = {} THEN resp.status = 404
        ELSE /\ resp.status = 200
             /\ resp.rows = table
             /\ Cardinality(resp.rows) = Cardinality(table)

C8_Witness ==
    /\ NoCriteria
    /\ resp.status = 200
    /\ Cardinality(table) = 3

\* C9: get_all_idols never answers not-found: it answers 200 with one mapping per
\* table row, and the empty sequence for the empty table.
C9_ListAll ==
    req.op = "get_all_idols" =>
        /\ resp.status = 200
        /\ Cardinality(resp.rows) = Cardinality(table)
        /\ table = {} => resp.rows = {}

C9_Witness ==
    /\ req.op = "get_all_idols"
    /\ table = {}
    /\ resp.status = 200

\* C10: in filter_idols the bound names stay within the six criteria, the
\* Height/Weight relaxation is never appended, and no returned row fails a bound
\* criterion (a null Height or Weight lets no row through).
C10_RelaxUnreachable ==
    req.op = "filter_idols" =>
        LET q == filter_query(req.gender, req.country, req.company,
                              req.debut_year, req.age_from, req.age_to)
        IN  /\ query.bound \subseteq FilterNames
            /\ RelaxClause \notin Range(query.text)
            /\ \A r \in resp.rows : \A i \in 1..Len(query.text) :
                   query.text[i] # RelaxClause => ClauseHolds(query.text[i], r, q.params)

C10_Witness ==
    /\ req.op = "filter_idols"
    /\ query.bound = FilterNames
    /\ resp.status = 200
    /\ \E r \in table : r \notin resp.rows /\ (IsNull(r["Height"]) \/ IsNull(r["Weight"]))

====
